---------------------------- MODULE Spec2Model ----------------------------
(***************************************************************************)
(* Model of the minegauler Rust solver: the Grid container (utils.rs), the *)
(* C boundary function calc_probs (probs.rs) and the probability pipeline  *)
(* find_numbers -> find_groups -> find_configs -> find_probs (logic.rs).   *)
(*                                                                         *)
(* Two specifications:                                                     *)
(*   Spec      one call of the C function calc_probs, one action per step  *)
(*   SpecGrid  the public Grid methods called on a fresh Grid<u32>         *)
(***************************************************************************)
EXTENDS Integers, Sequences, FiniteSets, TLC

\* ------------------------------------------------------------------------
\* Bounds of the model

\* Largest x_size / y_size of a board passed to calc_probs.
MaxX == 3
MaxY == 3
\* Largest number of cells of a board passed to calc_probs.
MaxCells == 4
\* Largest number code (SOLVER_CELL_ZERO ..) placed in a cell of the input.
MaxNum == 3
\* Largest x_size / y_size of the grids of SpecGrid.
MaxGridX == 4
MaxGridY == 4
\* Coordinates passed to the Grid methods range over 0 .. MaxArg.
MaxArg == 5
\* The low 32 bits of the indices passed to coord_from_index range over
\* 0 .. MaxIndex.
MaxIndex == 20
\* Largest value of the bits of a usize index above bit 31 (0 on a 32-bit
\* target, where usize is u32).
MaxHi == 1

\* ------------------------------------------------------------------------
\* bindings (generated from solver.h): cell codes and return codes

SOLVER_CELL_EIGHT == 8
SOLVER_CELL_UNCLICKED == 9
SOLVER_CELL_ONE_MINE == 10
SOLVER_CELL_TWO_MINE == 11
SOLVER_CELL_THREE_MINE == 12

RC_SUCCESS == "RC_SUCCESS"
RC_INVALID_ARG == "RC_INVALID_ARG"
\* Value of rc while calc_probs has not returned.
RC_NONE == "none"

\* ------------------------------------------------------------------------
\* utils.rs: CellContents, Coord, Grid

Unclicked == [tag |-> "Unclicked", n |-> 0]
Num(k) == [tag |-> "Num", n |-> k]
Mine(k) == [tag |-> "Mine", n |-> k]

\* impl Default for CellContents
DefaultCellContents == Unclicked

\* struct Coord(pub u32, pub u32)
Coord(x, y) == <<x, y>>

\* A usize index: hi * 2^32 + lo, with lo < 2^32.
Usize(n) == [hi |-> 0, lo |-> n]
\* `index as u32` keeps the low 32 bits.
AsU32(index) == index.lo

\* Result of a call: a value, or a panic.
Ok(v) == [ok |-> TRUE, val |-> v]
Panicked == [ok |-> FALSE, val |-> <<>>]

\* The value of a variable that holds no grid (not constructible by GridNew).
NoGrid == [x_size |-> 0, y_size |-> 0, cells |-> <<>>]

GridNew(x_size, y_size, default) ==
    IF x_size < 1 \/ y_size < 1
    THEN Panicked
    ELSE Ok([x_size |-> x_size, y_size |-> y_size,
             cells |-> [i \in 1 .. (x_size * y_size) |-> default]])

num_cells(g) == g.x_size * g.y_size

has_coord(g, coord) == coord[1] < g.x_size /\ coord[2] < g.y_size

\* TRUE iff check_coord returns (does not panic).
check_coord(g, coord) == has_coord(g, coord)

coord_to_index(g, coord) ==
    IF ~check_coord(g, coord)
    THEN Panicked
    ELSE Ok(coord[1] + coord[2] * g.x_size)

coord_from_index(g, index) ==
    LET i == AsU32(index)
        coord == Coord(i % g.x_size, i \div g.x_size)
    IN  IF ~check_coord(g, coord) THEN Panicked ELSE Ok(coord)

\* cell(): check_coord, then index the vector (0-based in the code).
cell(g, coord) ==
    IF ~check_coord(g, coord)
    THEN Panicked
    ELSE Ok(g.cells[coord_to_index(g, coord).val + 1])

set_cell(g, coord, contents) ==
    LET index == coord_to_index(g, coord)
    IN  IF ~index.ok
        THEN Panicked
        ELSE Ok([g EXCEPT !.cells[index.val + 1] = contents])

\* iter_coords / iter_cells: for y in 0..y_size { for x in 0..x_size { push } }
RECURSIVE PushRow(_, _, _, _)
PushRow(vec, x, y, g) ==
    IF x >= g.x_size THEN vec
    ELSE PushRow(Append(vec, Coord(x, y)), x + 1, y, g)

RECURSIVE PushRows(_, _, _)
PushRows(vec, y, g) ==
    IF y >= g.y_size THEN vec
    ELSE PushRows(PushRow(vec, 0, y, g), y + 1, g)

iter_coords(g) == PushRows(<<>>, 0, g)

iter_cells(g) ==
    LET cs == iter_coords(g)
    IN  [k \in 1 .. Len(cs) |-> <<cs[k], cell(g, cs[k]).val>>]

Min(a, b) == IF a <= b THEN a ELSE b

get_neighbours_mut(g, coord) ==
    IF ~check_coord(g, coord)
    THEN Panicked
    ELSE LET x == coord[1]
             y == coord[2]
             x_min == IF x >= 1 THEN x - 1 ELSE 0
             x_max == Min(g.x_size - 1, x + 1)
             y_min == IF y >= 1 THEN y - 1 ELSE 0
             y_max == Min(g.y_size - 1, y + 1)
         IN  Ok({Coord(i, j) : i \in x_min .. x_max, j \in y_min .. y_max})

get_neighbours(g, coord) ==
    IF ~check_coord(g, coord)
    THEN Panicked
    ELSE LET x == coord[1]
             y == coord[2]
             x_min == IF x >= 1 THEN x - 1 ELSE 0
             x_max == Min(g.x_size - 1, x + 1)
             y_min == IF y >= 1 THEN y - 1 ELSE 0
             y_max == Min(g.y_size - 1, y + 1)
         IN  Ok({c \in {Coord(i, j) : i \in x_min .. x_max, j \in y_min .. y_max} :
                    <<x, y>> # <<c[1], c[2]>>})

\* ------------------------------------------------------------------------
\* probs.rs: conversion of the C board

\* impl TryFrom<solver_cell_contents_t> for CellContents; the arms in order.
CellContentsTryFrom_mut(c_contents) ==
    IF c_contents = SOLVER_CELL_UNCLICKED THEN Ok(Unclicked)
    ELSE IF c_contents \in {SOLVER_CELL_ONE_MINE, SOLVER_CELL_TWO_MINE,
                            SOLVER_CELL_THREE_MINE}
    THEN Ok(Mine(c_contents - SOLVER_CELL_ONE_MINE + 1))
    ELSE Ok(Num(c_contents))

CellContentsTryFrom(c_contents) ==
    IF c_contents = SOLVER_CELL_UNCLICKED THEN Ok(Unclicked)
    ELSE IF c_contents \in 0 .. SOLVER_CELL_EIGHT THEN Ok(Num(c_contents))
    ELSE IF c_contents \in {SOLVER_CELL_ONE_MINE, SOLVER_CELL_TWO_MINE,
                            SOLVER_CELL_THREE_MINE}
    THEN Ok(Mine(c_contents - SOLVER_CELL_ONE_MINE + 1))
    ELSE [ok |-> FALSE, val |-> Unclicked]

\* Outcome of Board::try_from: "ok" with the board, "err", or "panic".
TryFromResult(kind, b) == [kind |-> kind, board |-> b]

\* The loop `for i in 0..(x_size * y_size)` from iteration i on.
RECURSIVE BoardTryFromLoop(_, _, _)
BoardTryFromLoop(c_board, board, i) ==
    IF i >= c_board.x_size * c_board.y_size
    THEN TryFromResult("ok", board)
    ELSE LET contents == CellContentsTryFrom(c_board.cells[i + 1])
             coord == coord_from_index(board, Usize(i))
         IN  IF ~contents.ok THEN TryFromResult("err", NoGrid)
             ELSE IF ~coord.ok THEN TryFromResult("panic", NoGrid)
             ELSE LET b == set_cell(board, coord.val, contents.val)
                  IN  IF ~b.ok THEN TryFromResult("panic", NoGrid)
                      ELSE BoardTryFromLoop(c_board, b.val, i + 1)

\* impl TryFrom<solver_board_t> for Board
BoardTryFrom(c_board) ==
    LET board == GridNew(c_board.x_size, c_board.y_size, DefaultCellContents)
    IN  IF ~board.ok THEN TryFromResult("panic", NoGrid)
        ELSE BoardTryFromLoop(c_board, board.val, 0)

\* ------------------------------------------------------------------------
\* logic.rs: the pipeline

\* struct Number
Number(value, coord, nbrs) ==
    [value |-> value, coord |-> coord, nbrs |-> nbrs, groups |-> <<>>]

\* Sum of n over the cells of all_nbrs that hold Mine(n) (lines 52-61).
RECURSIVE MinesOf_mut(_, _)
MinesOf_mut(board, all_nbrs) ==
    IF all_nbrs = {} THEN 0
    ELSE LET c == CHOOSE c \in all_nbrs : TRUE
             v == cell(board, c).val
         IN  (IF v.tag = "Mine" THEN 1 ELSE 0)
             + MinesOf_mut(board, all_nbrs \ {c})

RECURSIVE MinesOf(_, _)
MinesOf(board, all_nbrs) ==
    IF all_nbrs = {} THEN 0
    ELSE LET c == CHOOSE c \in all_nbrs : TRUE
             v == cell(board, c).val
         IN  (IF v.tag = "Mine" THEN v.n ELSE 0)
             + MinesOf(board, all_nbrs \ {c})

\* The neighbouring clickable cells (lines 70-73).
ClickableNbrs_mut(board, all_nbrs) ==
    {c \in all_nbrs : cell(board, c).val.tag # "Num"}

ClickableNbrs(board, all_nbrs) ==
    {c \in all_nbrs : cell(board, c).val = Unclicked}

\* The loop of find_numbers over iter_cells, from position k on.
RECURSIVE FindNumbersLoop(_, _, _, _)
FindNumbersLoop(board, cells, k, nums) ==
    IF k > Len(cells) THEN Ok(nums)
    ELSE LET coord == cells[k][1]
             v == cells[k][2]
         IN  IF v.tag # "Num"
             THEN FindNumbersLoop(board, cells, k + 1, nums)
             ELSE LET all_nbrs == get_neighbours(board, coord).val
                      orig_value == v.n
                      mines == MinesOf(board, all_nbrs)
                  IN  IF orig_value < mines
                      THEN Panicked
                      ELSE FindNumbersLoop(board, cells, k + 1,
                               Append(nums,
                                      Number(orig_value - mines, coord,
                                             ClickableNbrs(board, all_nbrs))))

find_numbers(board) == FindNumbersLoop(board, iter_cells(board), 1, <<>>)

\* Returns vec![] whatever the numbers are.
find_groups(numbers) == <<>>

find_configs(numbers, groups) == <<>>

\* BoardProbs::new(0, 0)
find_probs(board, configs) == GridNew(0, 0, 0)

\* The writes of `for (i, (_, p)) in probs.iter_cells().enumerate()`:
\* in order, <<offset, value>>.
WriteLoop(probs) ==
    LET cs == iter_cells(probs)
    IN  [k \in 1 .. Len(cs) |-> <<k - 1, cs[k][2]>>]

\* ------------------------------------------------------------------------
\* State

VARIABLES
    c_board,     \* the solver_board_t behind the first argument of calc_probs
    c_probs,     \* the second argument: [null, writes], writes = <<offset, value>>*
    pc,          \* position of the call of calc_probs
    rc,          \* the retcode returned, RC_NONE before the return
    panic_in,    \* the function that panicked, "" if none did
    board,       \* the Board built by Board::try_from
    numbers,     \* result of find_numbers
    groups,      \* result of find_groups
    configs,     \* result of find_configs
    probs,       \* result of Board::calc_probs (find_probs)
    grid,        \* SpecGrid: the Grid<u32> under test
    op,          \* SpecGrid: the last method called
    arg,         \* SpecGrid: its argument
    res          \* SpecGrid: its result

vars == <<c_board, c_probs, pc, rc, panic_in, board, numbers, groups, configs,
          probs, grid, op, arg, res>>

callVars == <<c_board, c_probs, pc, rc, panic_in, board, numbers, groups,
              configs, probs>>
gridVars == <<grid, op, arg, res>>

\* A cell code no arm of CellContents::try_from accepts.
BadCode == SOLVER_CELL_THREE_MINE + 1

\* The cell codes placed in the input boards.
CCodes == (0 .. MaxNum) \cup {SOLVER_CELL_UNCLICKED, SOLVER_CELL_ONE_MINE,
                              SOLVER_CELL_TWO_MINE, BadCode}

NullBoard ==
    [null |-> TRUE, x_size |-> 0, y_size |-> 0, cells_null |-> TRUE,
     cells |-> <<>>]

\* The dimensions of the input boards.
Dims == {d \in (0 .. MaxX) \X (0 .. MaxY) : d[1] * d[2] <= MaxCells}

\* The arguments a caller can pass: null or a board struct whose cells
\* pointer is null or addresses x_size * y_size cell codes.
CBoards ==
    {NullBoard}
    \cup UNION {
        {[null |-> FALSE, x_size |-> d[1], y_size |-> d[2],
          cells_null |-> TRUE, cells |-> <<>>]}
        \cup {[null |-> FALSE, x_size |-> d[1], y_size |-> d[2],
               cells_null |-> FALSE, cells |-> cs] :
                 cs \in [1 .. (d[1] * d[2]) -> CCodes]} :
        d \in Dims}

GridIdle ==
    /\ grid = NoGrid
    /\ op = "none"
    /\ arg = <<>>
    /\ res = Panicked

Init ==
    /\ c_board \in CBoards
    /\ c_probs \in {[null |-> n, writes |-> <<>>] : n \in BOOLEAN}
    /\ pc = "check_args"
    /\ rc = RC_NONE
    /\ panic_in = ""
    /\ board = NoGrid
    /\ numbers = <<>>
    /\ groups = <<>>
    /\ configs = <<>>
    /\ probs = NoGrid
    /\ GridIdle

\* ------------------------------------------------------------------------
\* calc_probs (probs.rs), one action per step
\*
\* A panic inside calc_probs leaves an extern "C" function: the process
\* aborts or the unwinding enters the C caller, depending on the toolchain.
\* Either way no retcode is returned and nothing more is written; both
\* outcomes are the state pc = "panicked".

\* Lines 23-33: the null checks.
CheckArgs ==
    /\ pc = "check_args"
    /\ IF c_board.null \/ c_probs.null \/ c_board.cells_null
       THEN /\ rc' = RC_INVALID_ARG
            /\ pc' = "returned"
       ELSE /\ pc' = "try_from"
            /\ rc' = rc
    /\ UNCHANGED <<c_board, c_probs, panic_in, board, numbers, groups,
                   configs, probs, gridVars>>

\* Lines 35-41: Board::try_from(c_board).
TryFrom ==
    /\ pc = "try_from"
    /\ LET r == BoardTryFrom(c_board)
       IN  CASE r.kind = "panic" ->
                    /\ pc' = "panicked"
                    /\ panic_in' = "try_from"
                    /\ UNCHANGED <<rc, board>>
             [] r.kind = "err" ->
                    /\ pc' = "returned"
                    /\ rc' = RC_INVALID_ARG
                    /\ UNCHANGED <<panic_in, board>>
             [] r.kind = "ok" ->
                    /\ pc' = "find_numbers"
                    /\ board' = r.board
                    /\ UNCHANGED <<rc, panic_in>>
    /\ UNCHANGED <<c_board, c_probs, numbers, groups, configs, probs,
                   gridVars>>

\* Line 43, Board::calc_probs line 102.
FindNumbers ==
    /\ pc = "find_numbers"
    /\ LET r == find_numbers(board)
       IN  IF r.ok
           THEN /\ numbers' = r.val
                /\ pc' = "find_groups"
                /\ UNCHANGED panic_in
           ELSE /\ pc' = "panicked"
                /\ panic_in' = "find_numbers"
                /\ UNCHANGED numbers
    /\ UNCHANGED <<c_board, c_probs, rc, board, groups, configs, probs,
                   gridVars>>

\* Board::calc_probs line 103.
FindGroups ==
    /\ pc = "find_groups"
    /\ groups' = find_groups(numbers)
    /\ pc' = "find_configs"
    /\ UNCHANGED <<c_board, c_probs, rc, panic_in, board, numbers, configs,
                   probs, gridVars>>

\* Board::calc_probs line 104.
FindConfigs ==
    /\ pc = "find_configs"
    /\ configs' = find_configs(numbers, groups)
    /\ pc' = "find_probs"
    /\ UNCHANGED <<c_board, c_probs, rc, panic_in, board, numbers, groups,
                   probs, gridVars>>

\* Board::calc_probs line 105, then probs.rs lines 46-51: the write loop and
\* the return of RC_SUCCESS.
FindProbs ==
    /\ pc = "find_probs"
    /\ LET r == find_probs(board, configs)
       IN  IF r.ok
           THEN /\ probs' = r.val
                /\ c_probs' = [c_probs EXCEPT !.writes = WriteLoop(r.val)]
                /\ rc' = RC_SUCCESS
                /\ pc' = "returned"
                /\ UNCHANGED panic_in
           ELSE /\ pc' = "panicked"
                /\ panic_in' = "find_probs"
                /\ UNCHANGED <<c_probs, rc, probs>>
    /\ UNCHANGED <<c_board, board, numbers, groups, configs, gridVars>>

Next ==
    \/ CheckArgs
    \/ TryFrom
    \/ FindNumbers
    \/ FindGroups
    \/ FindConfigs
    \/ FindProbs

Spec == Init /\ [][Next]_vars

\* ------------------------------------------------------------------------
\* The Grid methods on a Grid<u32> (utils.rs, as in mod test::grid)

CallIdle ==
    /\ c_board = NullBoard
    /\ c_probs = [null |-> TRUE, writes |-> <<>>]
    /\ pc = "idle"
    /\ rc = RC_NONE
    /\ panic_in = ""
    /\ board = NoGrid
    /\ numbers = <<>>
    /\ groups = <<>>
    /\ configs = <<>>
    /\ probs = NoGrid

InitGrid ==
    /\ CallIdle
    /\ GridIdle

ArgCoords == (0 .. MaxArg) \X (0 .. MaxArg)
ArgIndices == {[hi |-> h, lo |-> l] : h \in 0 .. MaxHi, l \in 0 .. MaxIndex}

\* Grid::<u32>::new(x_size, y_size)
GridNewCall ==
    /\ op = "none"
    /\ \E x_size \in 0 .. MaxGridX, y_size \in 0 .. MaxGridY :
          LET r == GridNew(x_size, y_size, 0)
          IN  /\ op' = "new"
              /\ arg' = <<x_size, y_size>>
              /\ res' = [ok |-> r.ok, val |-> <<>>]
              /\ grid' = IF r.ok THEN r.val ELSE NoGrid
    /\ UNCHANGED callVars

\* A grid has been constructed.
HasGrid == grid # NoGrid

CoordToIndexCall ==
    /\ HasGrid
    /\ \E coord \in ArgCoords :
          /\ op' = "coord_to_index"
          /\ arg' = coord
          /\ res' = coord_to_index(grid, coord)
    /\ UNCHANGED <<grid, callVars>>

CoordFromIndexCall ==
    /\ HasGrid
    /\ \E index \in ArgIndices :
          /\ op' = "coord_from_index"
          /\ arg' = index
          /\ res' = coord_from_index(grid, index)
    /\ UNCHANGED <<grid, callVars>>

GetNeighboursCall ==
    /\ HasGrid
    /\ \E coord \in ArgCoords :
          /\ op' = "get_neighbours"
          /\ arg' = coord
          /\ res' = get_neighbours(grid, coord)
    /\ UNCHANGED <<grid, callVars>>

NextGrid ==
    \/ GridNewCall
    \/ CoordToIndexCall
    \/ CoordFromIndexCall
    \/ GetNeighboursCall

SpecGrid == InitGrid /\ [][NextGrid]_vars

\* ------------------------------------------------------------------------
\* Properties of the Grid methods

\* The coordinates inside grid g, by definition.
InBounds(g) == (0 .. g.x_size - 1) \X (0 .. g.y_size - 1)

\* The value of a usize index is at least n (n < 2^32).
IndexAtLeast(index, n) == index.hi > 0 \/ index.lo >= n

Abs(a) == IF a < 0 THEN -a ELSE a

\* The cells of g that differ from c by at most 1 in x and in y, but c.
Adjacent(g, c) ==
    {d \in InBounds(g) :
        /\ Abs(d[1] - c[1]) <= 1
        /\ Abs(d[2] - c[2]) <= 1
        /\ d # c}

\* C9: coord_to_index and coord_from_index are mutually inverse bijections
\* between the in-bounds coordinates and 0 .. x_size*y_size - 1, with
\* coord_to_index(x, y) = x + y*x_size; coord_to_index panics for every
\* out-of-bounds coordinate and coord_from_index panics for every index
\* >= x_size*y_size.
C9_IndexBijection ==
    /\ op = "coord_to_index" =>
          IF arg \in InBounds(grid)
          THEN /\ res.ok
               /\ res.val = arg[1] + arg[2] * grid.x_size
               /\ res.val \in 0 .. num_cells(grid) - 1
               /\ coord_from_index(grid, Usize(res.val)) = Ok(arg)
          ELSE ~res.ok
    /\ op = "coord_from_index" =>
          IF IndexAtLeast(arg, num_cells(grid))
          THEN ~res.ok
          ELSE /\ res.ok
               /\ res.val \in InBounds(grid)
               /\ coord_to_index(grid, res.val) = Ok(arg.lo)

\* C9, for the indices below 2^32 only (those `as u32` leaves unchanged).
C9_IndexBijectionU32 ==
    (op = "coord_from_index" => arg.hi = 0) => C9_IndexBijection

\* C10: get_neighbours(c) of an in-bounds c is exactly the set of in-bounds
\* cells at distance at most 1 in x and y other than c: 3 at a corner, 5 on
\* an edge, 8 in the interior; the relation is symmetric; the call panics
\* for an out-of-bounds c.
C10_Neighbours ==
    op = "get_neighbours" =>
        IF arg \in InBounds(grid)
        THEN LET onXEdge == arg[1] \in {0, grid.x_size - 1}
                 onYEdge == arg[2] \in {0, grid.y_size - 1}
             IN  /\ res.ok
                 /\ res.val = Adjacent(grid, arg)
                 /\ (grid.x_size >= 3 /\ grid.y_size >= 3) =>
                       Cardinality(res.val) =
                           IF onXEdge /\ onYEdge THEN 3
                           ELSE IF onXEdge \/ onYEdge THEN 5
                           ELSE 8
                 /\ \A b \in InBounds(grid) :
                       (b \in res.val) <=> (arg \in get_neighbours(grid, b).val)
        ELSE ~res.ok

\* An interior cell's neighbours have been computed.
C10_Witness ==
    /\ op = "get_neighbours"
    /\ res.ok
    /\ Cardinality(res.val) = 8

\* ------------------------------------------------------------------------
\* Properties of calc_probs and the pipeline

\* calc_probs has ended: by returning a retcode, or by a panic.
Terminal == pc \in {"returned", "panicked"}

\* Board::calc_probs has been called.
CoreInvoked ==
    \/ pc \in {"find_groups", "find_configs", "find_probs"}
    \/ panic_in \in {"find_numbers", "find_probs"}
    \/ rc = RC_SUCCESS

\* find_numbers has returned its constraints.
NumbersReturned ==
    \/ pc \in {"find_groups", "find_configs", "find_probs"}
    \/ panic_in = "find_probs"
    \/ rc = RC_SUCCESS

\* find_groups has returned its groups.
GroupsReturned ==
    \/ pc \in {"find_configs", "find_probs"}
    \/ panic_in = "find_probs"
    \/ rc = RC_SUCCESS

\* The cell codes of the C encoding.
ValidCodes ==
    (0 .. SOLVER_CELL_EIGHT)
    \cup {SOLVER_CELL_UNCLICKED, SOLVER_CELL_ONE_MINE, SOLVER_CELL_TWO_MINE,
          SOLVER_CELL_THREE_MINE}

\* The contents of cell c of board b, at row-major offset x + y * x_size.
CellAt(b, c) == b.cells[c[1] + c[2] * b.x_size + 1]

\* The coordinates of b in row-major order.
RowMajor(b) ==
    [k \in 1 .. (b.x_size * b.y_size) |->
        <<(k - 1) % b.x_size, (k - 1) \div b.x_size>>]

\* Number of neighbouring cells of c that hold a mine.
MineCells(b, c) ==
    Cardinality({d \in Adjacent(b, c) : CellAt(b, d).tag = "Mine"})

\* Number of mines in the neighbouring cells of c: a cell Mine(n) holds n.
MineTotal(b, c) ==
    LET holding(n) == {d \in Adjacent(b, c) : CellAt(b, d) = Mine(n)}
    IN  Cardinality(holding(1)) + 2 * Cardinality(holding(2))
        + 3 * Cardinality(holding(3))

\* The revealed-number cells of b.
NumberCells(b) == {c \in InBounds(b) : CellAt(b, c).tag = "Num"}

\* C1: for a well-formed board of W x H cells, Board::calc_probs completes
\* and returns a probability grid of x_size = W, y_size = H and W*H cells.
C1_ProbsSameShape ==
    (Terminal /\ NumbersReturned) =>
        /\ panic_in = ""
        /\ probs.x_size = board.x_size
        /\ probs.y_size = board.y_size
        /\ Len(probs.cells) = board.x_size * board.y_size

\* The arguments are malformed: a null pointer, or a cell outside the
\* encoding.
Malformed ==
    \/ c_board.null
    \/ c_probs.null
    \/ c_board.cells_null
    \/ \E i \in 1 .. Len(c_board.cells) : c_board.cells[i] \notin ValidCodes

\* C2: when the board pointer, the output pointer or the cells pointer is
\* null, or a cell holds a value outside the encoding, calc_probs returns
\* RC_INVALID_ARG, never calls Board::calc_probs and writes nothing to the
\* output buffer.
C2_RejectsMalformed ==
    Malformed =>
        /\ pc \in {"check_args", "try_from", "returned"}
        /\ pc = "returned" => rc = RC_INVALID_ARG
        /\ ~CoreInvoked
        /\ c_probs.writes = <<>>

\* calc_probs has rejected a board of valid pointers for a cell outside the
\* encoding.
C2_Witness ==
    /\ ~c_board.null /\ ~c_probs.null /\ ~c_board.cells_null
    /\ \E i \in 1 .. Len(c_board.cells) : c_board.cells[i] \notin ValidCodes
    /\ \E i \in 1 .. Len(c_board.cells) : c_board.cells[i] \in ValidCodes
    /\ pc = "returned"
    /\ rc = RC_INVALID_ARG

\* C3: a board with x_size = 0 or y_size = 0 and non-null pointers is
\* reported as RC_INVALID_ARG; the call does not panic and the core is not
\* invoked.
C3_ZeroDimensionRejected ==
    ( /\ ~c_board.null /\ ~c_probs.null /\ ~c_board.cells_null
      /\ (c_board.x_size = 0 \/ c_board.y_size = 0)
      /\ Terminal )
    => /\ pc = "returned"
       /\ rc = RC_INVALID_ARG
       /\ ~CoreInvoked

\* C4 (as claimed): the constraint of a number cell has required value =
\* shown value - the count of its neighbouring mine cells, each mine cell
\* counting once.
C4_RequiredCountsCells ==
    NumbersReturned =>
        \A k \in 1 .. Len(numbers) :
            numbers[k].value =
                CellAt(board, numbers[k].coord).n
                - MineCells(board, numbers[k].coord)

\* C4 (amended): the constraint of a number cell has required value = shown
\* value - the number of mines in its neighbouring cells, a cell Mine(n)
\* counting n.
C4_RequiredCountsMines ==
    NumbersReturned =>
        /\ NumberCells(board) = {numbers[k].coord : k \in 1 .. Len(numbers)}
        /\ \A k \in 1 .. Len(numbers) :
              /\ numbers[k].value >= 0
              /\ numbers[k].value =
                     CellAt(board, numbers[k].coord).n
                     - MineTotal(board, numbers[k].coord)

\* find_numbers has emitted a constraint for a number next to a cell of two
\* mines and a cell of one mine.
C4_Witness ==
    /\ NumbersReturned
    /\ \E k \in 1 .. Len(numbers) :
          /\ \E d \in Adjacent(board, numbers[k].coord) :
                CellAt(board, d) = Mine(2)
          /\ MineCells(board, numbers[k].coord) >= 2
          /\ numbers[k].value = 0

\* Some number cell of the board shows less than the mines around it.
TooManyMines ==
    /\ board # NoGrid
    /\ \E c \in NumberCells(board) : CellAt(board, c).n < MineTotal(board, c)

\* C5: if a number cell shows less than the mines in its neighbouring cells,
\* the computation fails with an error returned to the caller (a non-success
\* status, not an abort), and no constraint list and no probability is
\* produced.
C5_InconsistentBoardReturnsError ==
    (TooManyMines /\ Terminal) =>
        /\ pc = "returned"
        /\ rc \notin {RC_SUCCESS, RC_NONE}
        /\ numbers = <<>>
        /\ c_probs.writes = <<>>

\* The constraints of b as C6 states them: one per number cell, in
\* row-major order, over the unclicked neighbours.
ExpectedNumbers(b) ==
    LET IsNum(c) == CellAt(b, c).tag = "Num"
        cs == SelectSeq(RowMajor(b), IsNum)
    IN  [k \in 1 .. Len(cs) |->
            [coord |-> cs[k],
             nbrs |-> {d \in Adjacent(b, cs[k]) : CellAt(b, d) = Unclicked}]]

\* C6: find_numbers emits exactly one constraint per revealed-number cell
\* and none for any other cell, in row-major order, each over exactly the
\* in-bounds neighbouring cells that are Unclicked; the board is left
\* unchanged.
C6_OneConstraintPerNumber ==
    /\ [](NumbersReturned =>
            /\ Len(numbers) = Len(ExpectedNumbers(board))
            /\ \A k \in 1 .. Len(numbers) :
                  /\ numbers[k].coord = ExpectedNumbers(board)[k].coord
                  /\ numbers[k].nbrs = ExpectedNumbers(board)[k].nbrs)
    /\ [][pc \notin {"check_args", "try_from"} => board' = board]_vars

\* find_numbers has emitted two constraints or more, one with an unclicked
\* neighbour, for a board that also holds a mine.
C6_Witness ==
    /\ NumbersReturned
    /\ Len(numbers) >= 2
    /\ \E k \in 1 .. Len(numbers) : numbers[k].nbrs # {}
    /\ \E c \in InBounds(board) : CellAt(board, c).tag = "Mine"

\* The variables of group g: the clickable neighbours of its numbers.
GroupVariables(g) == UNION {n.nbrs : n \in {g.numbers[i] : i \in 1 .. Len(g.numbers)}}

\* The coordinates of the constraints of group g.
GroupConstraints(g) == {g.numbers[i].coord : i \in 1 .. Len(g.numbers)}

\* The constrained variables: the variables of some constraint.
ConstrainedVariables == UNION {numbers[k].nbrs : k \in 1 .. Len(numbers)}

\* C7: the groups of find_groups cover every constrained variable exactly
\* once, and no two groups share a variable or a constraint.
C7_GroupsPartitionVariables ==
    GroupsReturned =>
        /\ \A v \in ConstrainedVariables :
              Cardinality({i \in 1 .. Len(groups) :
                              v \in GroupVariables(groups[i])}) = 1
        /\ \A i, j \in 1 .. Len(groups) :
              i # j =>
                 /\ GroupVariables(groups[i]) \cap GroupVariables(groups[j]) = {}
                 /\ GroupConstraints(groups[i]) \cap GroupConstraints(groups[j]) = {}

\* C8 is stated here but not settled: no behaviour of Spec reaches a return
\* of RC_SUCCESS (find_probs panics for every board), so the formula holds
\* vacuously and C8_Witness is unreachable.
\* C8: on a successful call the probability of every cell (x, y) is written
\* at offset x + y*x_size, every offset in 0 .. x_size*y_size - 1 is written
\* exactly once and no other offset is written.
C8_RowMajorWrites ==
    (pc = "returned" /\ rc = RC_SUCCESS) =>
        /\ Len(c_probs.writes) = board.x_size * board.y_size
        /\ \A k \in 1 .. Len(c_probs.writes) :
              /\ c_probs.writes[k][1] \in 0 .. board.x_size * board.y_size - 1
              /\ c_probs.writes[k][2] = CellAt(probs, RowMajor(board)[c_probs.writes[k][1] + 1])
        /\ \A k, l \in 1 .. Len(c_probs.writes) :
              c_probs.writes[k][1] = c_probs.writes[l][1] => k = l

\* A call has returned RC_SUCCESS.
C8_Witness == pc = "returned" /\ rc = RC_SUCCESS

=============================================================================
